---- MODULE Spec2Model ----
(***************************************************************************)
(* A model of sourcier-core: the bit-packed position codec (fid.rs), the   *)
(* line index (clo.rs) and the file registry SourceFilesMap (sfm.rs).      *)
(*                                                                         *)
(* Five specifications share the variables below:                          *)
(*   SpecCodec  AbsolutePosition<u8>, AbsolutePosition<u16> and            *)
(*              RelativePosition built from one tuple of arguments;        *)
(*   SpecLines  CompactLineOffsets::compute and get_line_range;            *)
(*   SpecView   SourceFilesMap::view on a registry holding one file;       *)
(*   Spec       SourceFilesMap: add_file, finalize and the lookups;        *)
(*   SpecFeedback  registries sharing one RuntimeFeedback, each finalized  *)
(*              by a thread of its own.                                    *)
(* A specification pins the variables it does not use to their initial     *)
(* values.                                                                 *)
(***************************************************************************)
EXTENDS Integers, Sequences, FiniteSets, TLC

VARIABLES
    \* ---- position codec (fid.rs) ----
    args,          \* the arguments handed to the constructors
    abs8,          \* AbsolutePosition<u8>.0, a 64-bit word, or NoPos
    abs16,         \* AbsolutePosition<u16>.0, or NoPos
    rel,           \* RelativePosition.0, or NoPos
    \* ---- line index (clo.rs) ----
    content,       \* the bytes handed to CompactLineOffsets::compute
    clo,           \* the CompactLineOffsets built from them, or NoClo
    \* ---- file registry (sfm.rs) ----
    files,         \* SourceFilesMap.files: Vec<FileEntry>
    path_to_id,    \* SourceFilesMap.path_to_id: HashMap<String, Id>
    line_offsets,  \* SourceFilesMap.line_offsets: HashMap<Id, CompactLineOffsets>
    \* ---- the caller's view of the last call ----
    op,            \* the last operation called and its arguments
    ret,           \* what it returned
    hist,          \* history of the add_file calls made so far
    \* ---- shared runtime feedback (sfm.rs, feature rt-feedback) ----
    feedback,      \* the RuntimeFeedback inside the Arc<Mutex<..>>
    mutex,         \* the Mutex: its holder, and who locked it last
    regs           \* the registries built with_feedback, one per thread

codecVars == <<args, abs8, abs16, rel>>
lineVars == <<content, clo>>
mapVars == <<files, path_to_id, line_offsets>>
callVars == <<op, ret, hist>>
fbVars == <<feedback, mutex, regs>>
vars == <<args, abs8, abs16, rel, content, clo, files, path_to_id, line_offsets, op, ret, hist,
          feedback, mutex, regs>>

(***************************************************************************)
(* Values standing for Rust's Option::None, a panic, and "not yet built".  *)
(***************************************************************************)
None == [some |-> FALSE]
Some(v) == [some |-> TRUE, value |-> v]
\* A call that returned the plain value v, and a call that panicked.
Val(v) == [panic |-> FALSE, value |-> v]
Panic == [panic |-> TRUE]
NoPos == [built |-> FALSE]
Built(w) == [built |-> TRUE, raw |-> w]
NoClo == [built |-> FALSE]
\* A HashMap with no entry.
EmptyMap == <<>>

(***************************************************************************)
(* 64-bit words.  TLC's integers are 32 bits wide, so a u64 is the         *)
(* function from bit index to bit; shifts, masks and casts are Rust's.     *)
(***************************************************************************)
RECURSIVE Pow2(_)
Pow2(n) == IF n = 0 THEN 1 ELSE 2 * Pow2(n - 1)

U64_BITS == 64
BitIdx == 0..(U64_BITS - 1)

\* `n as u64` for a u8 or u16 n (and for the masks written as literals).
AsU64(n) == [i \in BitIdx |-> IF i < 31 THEN (n \div Pow2(i)) % 2 ELSE 0]
\* `x << k`, k < 64: the bits shifted past bit 63 are lost.
Shl(x, k) == [i \in BitIdx |-> IF i >= k THEN x[i - k] ELSE 0]
\* `x >> k`, k < 64.
Shr(x, k) == [i \in BitIdx |-> IF i + k < U64_BITS THEN x[i + k] ELSE 0]
BitOr(x, y) == [i \in BitIdx |-> IF x[i] = 1 \/ y[i] = 1 THEN 1 ELSE 0]
BitAnd(x, y) == [i \in BitIdx |-> IF x[i] = 1 /\ y[i] = 1 THEN 1 ELSE 0]

RECURSIVE LowBits(_, _)
\* The value of the w low bits of x.
LowBits(x, w) == IF w = 0 THEN 0 ELSE LowBits(x, w - 1) + x[w - 1] * Pow2(w - 1)
\* `x as u16`, `x as u8`: a truncating cast.
AsU16(x) == LowBits(x, 16)
AsU8(x) == LowBits(x, 8)
\* `x.try_into()` to an unsigned type of `bits` bits: fails when a higher bit is set.
TryIntoId(x, bits) ==
    IF \E i \in BitIdx : i >= bits /\ x[i] = 1 THEN None ELSE Some(LowBits(x, bits))

(***************************************************************************)
(* fid.rs: the File-ID policy (trait FileId, macro impl_file_id).          *)
(***************************************************************************)
LINE_MASK == 65535
COL_MASK == 255

impl_file_id_overlap(bits, file_shift) ==
    [ MAX_FILES        |-> Pow2(bits) - 1,
      FILE_ID_BITS     |-> bits,
      FILE_ID_SHIFT    |-> file_shift,
      START_LINE_SHIFT |-> file_shift - 16,
      START_COL_SHIFT  |-> file_shift - 32,
      END_LINE_SHIFT   |-> file_shift - 40,
      END_COL_SHIFT    |-> file_shift - 48,
      FILE_ID_MASK     |-> Shl(AsU64(Pow2(bits) - 1), file_shift) ]

impl_file_id(bits, file_shift) ==
    [ MAX_FILES        |-> Pow2(bits) - 1,
      FILE_ID_BITS     |-> bits,
      FILE_ID_SHIFT    |-> file_shift,
      START_LINE_SHIFT |-> file_shift - 16,
      START_COL_SHIFT  |-> file_shift - 24,
      END_LINE_SHIFT   |-> file_shift - 40,
      END_COL_SHIFT    |-> file_shift - 48,
      FILE_ID_MASK     |-> Shl(AsU64(Pow2(bits) - 1), file_shift) ]

\* impl_file_id!(u8, 8, 56); impl_file_id!(u16, 16, 48);
U8 == impl_file_id(8, 56)
U16 == impl_file_id(16, 48)

(***************************************************************************)
(* fid.rs: AbsolutePosition<Id>.                                           *)
(***************************************************************************)
AbsolutePosition_new(Id, file_id, start_line, start_col, end_line, end_col) ==
    BitOr(BitOr(BitOr(BitOr(
        Shl(AsU64(file_id), Id.FILE_ID_SHIFT),
        Shl(AsU64(start_line), Id.START_LINE_SHIFT)),
        Shl(AsU64(start_col), Id.START_COL_SHIFT)),
        Shl(AsU64(end_line), Id.END_LINE_SHIFT)),
        Shl(AsU64(end_col), Id.END_COL_SHIFT))

\* file_id(): the masked bits converted to Id; the conversion's failure panics.
Abs_file_id(Id, w) ==
    LET id_value == Shr(BitAnd(w, Id.FILE_ID_MASK), Id.FILE_ID_SHIFT)
        conv == TryIntoId(id_value, Id.FILE_ID_BITS)
    IN  IF conv.some THEN Val(conv.value) ELSE Panic

Abs_source_file_id(Id, w) ==
    Some(AsU16(Shr(BitAnd(w, Id.FILE_ID_MASK), Id.FILE_ID_SHIFT)))
Abs_start_line(Id, w) == AsU16(BitAnd(Shr(w, Id.START_LINE_SHIFT), AsU64(LINE_MASK)))
Abs_start_column(Id, w) == AsU8(BitAnd(Shr(w, Id.START_COL_SHIFT), AsU64(COL_MASK)))
Abs_end_line(Id, w) == AsU16(BitAnd(Shr(w, Id.END_LINE_SHIFT), AsU64(LINE_MASK)))
Abs_end_column(Id, w) == AsU8(BitAnd(Shr(w, Id.END_COL_SHIFT), AsU64(COL_MASK)))

(***************************************************************************)
(* fid.rs: RelativePosition.                                               *)
(***************************************************************************)
REL_START_LINE_SHIFT == 32
REL_START_COL_SHIFT == 24
REL_END_LINE_SHIFT == 8

RelativePosition_new_overlap(start_line, start_col, end_line, end_col) ==
    BitOr(BitOr(BitOr(
        Shl(AsU64(start_line), REL_START_LINE_SHIFT),
        Shl(AsU64(start_col), REL_START_COL_SHIFT)),
        Shl(AsU64(end_line), REL_END_LINE_SHIFT + 8)),
        AsU64(end_col))

RelativePosition_new(start_line, start_col, end_line, end_col) ==
    BitOr(BitOr(BitOr(
        Shl(AsU64(start_line), REL_START_LINE_SHIFT),
        Shl(AsU64(start_col), REL_START_COL_SHIFT)),
        Shl(AsU64(end_line), REL_END_LINE_SHIFT)),
        AsU64(end_col))

Rel_source_file_id(w) == None
Rel_start_line(w) == AsU16(BitAnd(Shr(w, REL_START_LINE_SHIFT), AsU64(65535)))
Rel_start_column(w) == AsU8(BitAnd(Shr(w, REL_START_COL_SHIFT), AsU64(255)))
Rel_end_line(w) == AsU16(BitAnd(Shr(w, REL_END_LINE_SHIFT), AsU64(65535)))
Rel_end_column(w) == AsU8(BitAnd(w, AsU64(255)))

(***************************************************************************)
(* clo.rs: CompactLineOffsets.  A Vec is a sequence, so the Rust index i   *)
(* is the sequence index i + 1.  Contents are far shorter than 2^32 bytes, *)
(* where the `as u32` cast of an offset is the identity.                   *)
(***************************************************************************)
NEWLINE == 10

\* memchr::memchr(b, s): the 0-based index of the first b in s.
memchr(b, s) ==
    IF \E i \in 1..Len(s) : s[i] = b
    THEN Some((CHOOSE i \in 1..Len(s) : s[i] = b /\ \A j \in 1..(i - 1) : s[j] # b) - 1)
    ELSE None

RECURSIVE compute_loop(_, _, _)
\* The while loop of compute: one offset pushed for each newline found.
compute_loop(c, current_pos, offsets) ==
    LET found == memchr(NEWLINE, SubSeq(c, current_pos + 1, Len(c)))
    IN  IF found.some
        THEN compute_loop(c, current_pos + found.value + 1,
                          Append(offsets, current_pos + found.value + 1))
        ELSE offsets

CompactLineOffsets_compute(c) ==
    [built |-> TRUE, offsets |-> compute_loop(c, 0, <<0>>), content_length |-> Len(c)]

get_line_range_with_newline(t, line) ==
    IF line = 0 \/ line > Len(t.offsets)
    THEN None
    ELSE Some(<<t.offsets[line],
                IF line < Len(t.offsets) THEN t.offsets[line + 1] ELSE t.content_length>>)

get_line_range(t, line) ==
    IF line = 0 \/ line > Len(t.offsets)
    THEN None
    ELSE Some(<<t.offsets[line],
                IF line < Len(t.offsets) THEN t.offsets[line + 1] - 1 ELSE t.content_length>>)

(***************************************************************************)
(* sfm.rs: SourceFilesMap<Id>.  The registry is checked with a narrow ID   *)
(* type: MaxFiles stands for Id::MAX_FILES (= <Id>::MAX, 255 for u8), ids  *)
(* are 0..MaxFiles, and a path is a number, ordered as String orders.      *)
(* avg_file_size and expected_files only size a preallocation.             *)
(***************************************************************************)
MaxFiles == 2
Ids == 0..MaxFiles

\* Id::try_from(raw) / raw.try_into(): fails above <Id>::MAX.
TryFromU64(raw) == IF raw <= MaxFiles THEN Some(raw) ELSE None

Insert(map, k, v) == [x \in (DOMAIN map) \cup {k} |-> IF x = k THEN v ELSE map[x]]
Get(map, k) == IF k \in DOMAIN map THEN Some(map[k]) ELSE None

add_file_accepts_at_capacity(fs) == Len(fs) <= MaxFiles
\* add_file's guard: the entry is pushed only below capacity.
add_file_accepts(fs) == Len(fs) < MaxFiles

OrderedByPathOnly(a, b) == a.path <= b.path
\* The comparator of finalize's sort: by path, then by content length.
Ordered(a, b) ==
    \/ a.path < b.path
    \/ a.path = b.path /\ Len(a.content) <= Len(b.content)

IsSortedBy(s) == \A i \in 1..(Len(s) - 1) : Ordered(s[i], s[i + 1])

Rearrangements(fs) ==
    {[i \in 1..Len(fs) |-> fs[p[i]]] : p \in Permutations(1..Len(fs))}

sort_unstable_by_insertion_order(fs) == {fs}
\* sort_unstable_by: some rearrangement in the comparator's order; the order
\* of entries that compare equal is not specified.
sort_unstable_by(fs) == {s \in Rearrangements(fs) : IsSortedBy(s)}

RECURSIVE dedup_from(_, _, _)
\* Vec::dedup_by(|a, b| a.path == b.path): an entry is dropped when its path
\* equals that of the last entry kept.
dedup_from(s, i, kept) ==
    IF i > Len(s) THEN kept
    ELSE IF kept # <<>> /\ s[i].path = kept[Len(kept)].path
         THEN dedup_from(s, i + 1, kept)
         ELSE dedup_from(s, i + 1, Append(kept, s[i]))

dedup_by_path(s) == dedup_from(s, 1, <<>>)

RECURSIVE consolidate(_, _)
\* consolidated.extend_from_slice(&entry.content) for the first n entries.
consolidate(fs, n) ==
    IF n = 0 THEN <<>> ELSE consolidate(fs, n - 1) \o fs[n].content

offset_of_not_advanced(fs, n) == 0
RECURSIVE offset_of(_, _)
\* The value of `offset` when the second loop reaches entry n (1-based).
offset_of(fs, n) == IF n = 1 THEN 0 ELSE offset_of(fs, n - 1) + Len(fs[n - 1].content)

assigned_id_zero_based(idx) == idx
\* let id = (idx + 1) as u64
assigned_id(idx) == idx + 1

RECURSIVE build_ids(_, _, _)
\* The first loop of finalize from Rust index idx on: the path -> id
\* insertions, stopped by the first failed conversion.
build_ids(fs, idx, map) ==
    IF idx = Len(fs) THEN [ok |-> TRUE, map |-> map]
    ELSE LET id == TryFromU64(assigned_id(idx))
         IN  IF id.some
             THEN build_ids(fs, idx + 1, Insert(map, fs[idx + 1].path, id.value))
             ELSE [ok |-> FALSE, map |-> map]

\* The second loop: each content replaced by its window of `consolidated`.
rewindow(fs) ==
    LET consolidated == consolidate(fs, Len(fs))
    IN  [n \in 1..Len(fs) |->
            [path |-> fs[n].path,
             content |-> SubSeq(consolidated, offset_of(fs, n) + 1,
                                offset_of(fs, n) + Len(fs[n].content))]]

RECURSIVE build_line_offsets_keep_existing(_, _, _)
build_line_offsets_keep_existing(fs, idx, map) ==
    IF idx = Len(fs) THEN [ok |-> TRUE, map |-> map]
    ELSE LET id == TryFromU64(assigned_id(idx))
         IN  IF id.some
             THEN build_line_offsets_keep_existing(fs, idx + 1,
                     IF id.value \in DOMAIN map THEN map
                     ELSE Insert(map, id.value, CompactLineOffsets_compute(fs[idx + 1].content)))
             ELSE [ok |-> FALSE, map |-> map]

RECURSIVE build_line_offsets(_, _, _)
\* The view feature's loop from Rust index idx on.
build_line_offsets(fs, idx, map) ==
    IF idx = Len(fs) THEN [ok |-> TRUE, map |-> map]
    ELSE LET id == TryFromU64(assigned_id(idx))
         IN  IF id.some
             THEN build_line_offsets(fs, idx + 1,
                     Insert(map, id.value, CompactLineOffsets_compute(fs[idx + 1].content)))
             ELSE [ok |-> FALSE, map |-> map]

CapacityExceeded == [ok |-> FALSE, err |-> "Exceeded maximum of files for ID type"]
ConversionFailed == [ok |-> FALSE, err |-> "ID conversion failed"]
Ok == [ok |-> TRUE]

\* finalize on the outcome `sorted` of the sort: the registry's fields and the
\* result when it returns.
finalize(sorted, old_ids, old_offsets) ==
    LET deduped == dedup_by_path(sorted)
        ids == build_ids(deduped, 0, EmptyMap)
        windows == rewindow(deduped)
        lines == build_line_offsets(windows, 0, old_offsets)
    IN  IF Len(deduped) > MaxFiles
        THEN [files |-> deduped, path_to_id |-> old_ids,
              line_offsets |-> old_offsets, ret |-> CapacityExceeded]
        ELSE IF ~ids.ok
        THEN [files |-> deduped, path_to_id |-> ids.map,
              line_offsets |-> old_offsets, ret |-> ConversionFailed]
        ELSE IF ~lines.ok
        THEN [files |-> windows, path_to_id |-> ids.map,
              line_offsets |-> lines.map, ret |-> ConversionFailed]
        ELSE [files |-> windows, path_to_id |-> ids.map,
              line_offsets |-> lines.map, ret |-> Ok]

\* `raw_id - 1` on a u64: at raw_id = 0 the subtraction overflows, which
\* panics in a build with overflow checks (the debug profile) and wraps to
\* 2^64 - 1 in a build without them (the release profile).
U64_MAX_INDEX == 2147483647
index_of(raw_id, overflow_checks) ==
    IF raw_id >= 1 THEN Val(raw_id - 1)
    ELSE IF overflow_checks THEN Panic ELSE Val(U64_MAX_INDEX)

\* Vec::get(index)
vec_get(v, index) == IF index < Len(v) THEN Some(v[index + 1]) ELSE None

get_content(fs, id, overflow_checks) ==
    LET index == index_of(id, overflow_checks)
    IN  IF index.panic THEN Panic
        ELSE LET e == vec_get(fs, index.value)
             IN  IF e.some THEN Some(e.value.content) ELSE None

get_path(fs, id, overflow_checks) ==
    LET index == index_of(id, overflow_checks)
    IN  IF index.panic THEN Panic
        ELSE LET e == vec_get(fs, index.value)
             IN  IF e.some THEN Some(e.value.path) ELSE None

get_id(ids, path) == Get(ids, path)

saturating_sub(a, b) == IF a >= b THEN a - b ELSE 0

view_start_at_end(fs, offsets, id, pos, overflow_checks) ==
    LET c == get_content(fs, id, overflow_checks)
        table == Get(offsets, id)
    IN  IF c = Panic THEN Panic
        ELSE IF ~c.some THEN None
        ELSE IF ~table.some THEN None
        ELSE IF pos.start_line = 0 \/ pos.end_line = 0 \/ pos.start_line > pos.end_line
        THEN None
        ELSE LET start_range == get_line_range(table.value, pos.start_line)
                 end_range == get_line_range(table.value, pos.end_line)
             IN  IF ~start_range.some THEN None
                 ELSE IF ~end_range.some THEN None
                 ELSE LET start_byte == start_range.value[1]
                                          + saturating_sub(pos.start_col, 1)
                          end_byte == end_range.value[1] + pos.end_col
                      IN  IF \/ start_byte > Len(c.value)
                             \/ end_byte > Len(c.value)
                             \/ start_byte > end_byte
                          THEN None
                          ELSE Some(SubSeq(c.value, start_byte + 1, end_byte))

\* view(id, pos); pos is read through start_line(), start_column(),
\* end_line() and end_column() only.
view(fs, offsets, id, pos, overflow_checks) ==
    LET c == get_content(fs, id, overflow_checks)
        table == Get(offsets, id)
    IN  IF c = Panic THEN Panic
        ELSE IF ~c.some THEN None
        ELSE IF ~table.some THEN None
        ELSE IF pos.start_line = 0 \/ pos.end_line = 0 \/ pos.start_line > pos.end_line
        THEN None
        ELSE LET start_range == get_line_range(table.value, pos.start_line)
                 end_range == get_line_range(table.value, pos.end_line)
             IN  IF ~start_range.some THEN None
                 ELSE IF ~end_range.some THEN None
                 ELSE LET start_byte == start_range.value[1]
                                          + saturating_sub(pos.start_col, 1)
                          end_byte == end_range.value[1] + pos.end_col
                      IN  IF \/ start_byte >= Len(c.value)
                             \/ end_byte > Len(c.value)
                             \/ start_byte > end_byte
                          THEN None
                          ELSE Some(SubSeq(c.value, start_byte + 1, end_byte))

(***************************************************************************)
(* The codec's inputs: values that set the lowest bit, the highest bit and *)
(* all bits of each field, and the bits next to a neighbouring field.      *)
(***************************************************************************)
FileIdValues == {0, 1, 128, 255, 256, 32768, 65535}
LineValues == {0, 1, 256, 32768, 65535}
ColValues == {0, 1, 128, 255}

ArgSet ==
    [ file_id : FileIdValues, start_line : LineValues, start_col : ColValues,
      end_line : LineValues, end_col : ColValues ]

(***************************************************************************)
(* Initial values: nothing built, SourceFilesMap::new(), no call made.     *)
(***************************************************************************)
\* What the caller did so far: the number of add_file calls, the paths passed to
\* them, the path passed last, the (path, content) pairs add_file pushed, and the
\* content of the first call for each path.
NoHist == [nadds |-> 0, passed |-> {}, last |-> 0, pushed |-> {}, first |-> EmptyMap]

InitCodecVars ==
    /\ abs8 = NoPos
    /\ abs16 = NoPos
    /\ rel = NoPos

InitLineVars ==
    /\ content = <<>>
    /\ clo = NoClo

\* SourceFilesMap::new(): no file, no id, no line table.
InitMapVars ==
    /\ files = <<>>
    /\ path_to_id = EmptyMap
    /\ line_offsets = EmptyMap

InitCallVars ==
    /\ op = [name |-> "new"]
    /\ ret = None
    /\ hist = NoHist

\* RuntimeFeedback::default() in an unlocked Mutex.
DefaultFeedback == [total_files |-> 0, total_bytes |-> 0, max_file_size |-> 0, usage_count |-> 0]
Unlocked == [holder |-> 0, last |-> 0]

\* No registry shares a feedback context (SourceFilesMap::new(): feedback None).
InitFbVars ==
    /\ feedback = DefaultFeedback
    /\ mutex = Unlocked
    /\ regs = <<>>

\* AbsolutePosition::<u8>::new(args...); the file id is a u8.
NewAbsoluteU8 ==
    /\ abs8 = NoPos
    /\ args.file_id <= U8.MAX_FILES
    /\ abs8' = Built(AbsolutePosition_new(U8, args.file_id, args.start_line,
                                          args.start_col, args.end_line, args.end_col))
    /\ UNCHANGED <<fbVars, args, abs16, rel, lineVars, mapVars, callVars>>

\* AbsolutePosition::<u16>::new(args...).
NewAbsoluteU16 ==
    /\ abs16 = NoPos
    /\ args.file_id <= U16.MAX_FILES
    /\ abs16' = Built(AbsolutePosition_new(U16, args.file_id, args.start_line,
                                           args.start_col, args.end_line, args.end_col))
    /\ UNCHANGED <<fbVars, args, abs8, rel, lineVars, mapVars, callVars>>

\* RelativePosition::new(args...), the file id left out.
NewRelative ==
    /\ rel = NoPos
    /\ rel' = Built(RelativePosition_new(args.start_line, args.start_col,
                                         args.end_line, args.end_col))
    /\ UNCHANGED <<fbVars, args, abs8, abs16, lineVars, mapVars, callVars>>

InitCodec ==
    /\ args \in ArgSet
    /\ InitCodecVars
    /\ InitFbVars
    /\ InitLineVars
    /\ InitMapVars
    /\ InitCallVars

NextCodec == NewAbsoluteU8 \/ NewAbsoluteU16 \/ NewRelative

SpecCodec == InitCodec /\ [][NextCodec]_vars

(***************************************************************************)
(* C1  Round trip: a position built by AbsolutePosition::new (under the    *)
(* 8-bit and the 16-bit policy) decodes to the file id and the four        *)
(* numeric fields it was built from, and one built by                      *)
(* RelativePosition::new decodes to its four numeric fields.               *)
(***************************************************************************)
DecodesAbs(Id, w) ==
    /\ Abs_file_id(Id, w) = Val(args.file_id)
    /\ Abs_start_line(Id, w) = args.start_line
    /\ Abs_start_column(Id, w) = args.start_col
    /\ Abs_end_line(Id, w) = args.end_line
    /\ Abs_end_column(Id, w) = args.end_col

C1_RoundTrip ==
    /\ abs8.built => DecodesAbs(U8, abs8.raw)
    /\ abs16.built => DecodesAbs(U16, abs16.raw)
    /\ rel.built =>
          /\ Rel_start_line(rel.raw) = args.start_line
          /\ Rel_start_column(rel.raw) = args.start_col
          /\ Rel_end_line(rel.raw) = args.end_line
          /\ Rel_end_column(rel.raw) = args.end_col

\* All three positions built from fields that have every bit set.
C1_Witness ==
    /\ abs8.built /\ abs16.built /\ rel.built
    /\ args = [file_id |-> 255, start_line |-> 65535, start_col |-> 255,
               end_line |-> 65535, end_col |-> 255]
    /\ DecodesAbs(U8, abs8.raw)

(***************************************************************************)
(* C10  Cross-codec equality: an AbsolutePosition (either policy) and the  *)
(* RelativePosition built from the same four fields report the same        *)
(* start_line, start_column, end_line and end_column; source_file_id() is  *)
(* Some(file id) for the absolute position and None for the relative one.  *)
(***************************************************************************)
SameSpan(Id, a, r) ==
    /\ Abs_start_line(Id, a) = Rel_start_line(r)
    /\ Abs_start_column(Id, a) = Rel_start_column(r)
    /\ Abs_end_line(Id, a) = Rel_end_line(r)
    /\ Abs_end_column(Id, a) = Rel_end_column(r)

C10_CrossCodec ==
    /\ (abs8.built /\ rel.built) => SameSpan(U8, abs8.raw, rel.raw)
    /\ (abs16.built /\ rel.built) => SameSpan(U16, abs16.raw, rel.raw)
    /\ abs8.built => Abs_source_file_id(U8, abs8.raw) = Some(args.file_id)
    /\ abs16.built => Abs_source_file_id(U16, abs16.raw) = Some(args.file_id)
    /\ rel.built => Rel_source_file_id(rel.raw) = None

\* As in test_integrated_usage: one span built both ways, under both policies.
C10_Witness ==
    /\ abs8.built /\ abs16.built /\ rel.built
    /\ args.file_id = 1
    /\ Rel_start_line(rel.raw) = 256 /\ Rel_end_line(rel.raw) = 32768
    /\ Rel_start_column(rel.raw) = 128 /\ Rel_end_column(rel.raw) = 1
    /\ SameSpan(U16, abs16.raw, rel.raw)

(***************************************************************************)
(* Bounds and input sets.                                                  *)
(***************************************************************************)
MaxLen == 4      \* longest content handed to the line index and to view
MaxLine == 2     \* largest line number of a position handed to view
MaxAdds == 3     \* add_file calls made on one registry

Bytes == {NEWLINE, 97}
SeqsUpTo(S, n) == UNION {[1..k -> S] : k \in 0..n}
LineContents == SeqsUpTo(Bytes, MaxLen)

\* One path more than the ID type has ids for.
Paths == 1..(MaxFiles + 1)
\* Two contents of one length, a longer one with a newline, and no content.
Contents == {<<97>>, <<98>>, <<97, NEWLINE, 98>>}

\* The ids and positions handed to view.
ViewArgs ==
    [ file_id : Ids, start_line : 0..MaxLine, start_col : 0..(MaxLen + 1),
      end_line : 0..MaxLine, end_col : 0..(MaxLen + 1) ]

ZeroArgs ==
    [file_id |-> 0, start_line |-> 0, start_col |-> 0, end_line |-> 0, end_col |-> 0]

(***************************************************************************)
(* Line index: compute on a content, then get_line_range.                  *)
(***************************************************************************)
InitLines ==
    /\ args = ZeroArgs
    /\ InitCodecVars
    /\ InitFbVars
    /\ content \in LineContents
    /\ clo = NoClo
    /\ InitMapVars
    /\ InitCallVars

Compute ==
    /\ clo' = CompactLineOffsets_compute(content)
    /\ op' = [name |-> "compute"]
    /\ ret' = None
    /\ UNCHANGED <<fbVars, codecVars, content, mapVars, hist>>

GetLineRange ==
    \E line \in 0..(MaxLen + 2) :
        /\ clo.built
        /\ op' = [name |-> "get_line_range", line |-> line]
        /\ ret' = get_line_range(clo, line)
        /\ UNCHANGED <<fbVars, codecVars, lineVars, mapVars, hist>>

NextLines == Compute \/ GetLineRange

SpecLines == InitLines /\ [][NextLines]_vars

(***************************************************************************)
(* The registry's operations.                                              *)
(***************************************************************************)
\* The history after add_file(path, c) was called on a registry holding fs.
Called(h, fs, path, c) ==
    [ nadds  |-> h.nadds + 1,
      passed |-> h.passed \cup {path},
      last   |-> path,
      pushed |-> IF add_file_accepts(fs) THEN h.pushed \cup {<<path, c>>} ELSE h.pushed,
      first  |-> IF path \in DOMAIN h.first THEN h.first ELSE Insert(h.first, path, c) ]

add_file_at_front(path, c) ==
    /\ files' = IF add_file_accepts(files)
                THEN <<[path |-> path, content |-> c]>> \o files
                ELSE files
    /\ hist' = Called(hist, files, path, c)
    /\ op' = [name |-> "add_file"]
    /\ ret' = None
    /\ UNCHANGED <<fbVars, codecVars, lineVars, path_to_id, line_offsets>>

add_file(path, c) ==
    /\ files' = IF add_file_accepts(files)
                THEN Append(files, [path |-> path, content |-> c])
                ELSE files
    /\ hist' = Called(hist, files, path, c)
    /\ op' = [name |-> "add_file"]
    /\ ret' = None
    /\ UNCHANGED <<fbVars, codecVars, lineVars, path_to_id, line_offsets>>

AddFile ==
    \E path \in Paths, c \in Contents :
        /\ hist.nadds < MaxAdds
        /\ add_file(path, c)

Finalize ==
    \E sorted \in sort_unstable_by(files) :
        LET r == finalize(sorted, path_to_id, line_offsets)
        IN  /\ files' = r.files
            /\ path_to_id' = r.path_to_id
            /\ line_offsets' = r.line_offsets
            /\ op' = [name |-> "finalize"]
            /\ ret' = r.ret
            /\ UNCHANGED <<fbVars, codecVars, lineVars, hist>>

GetId ==
    \E path \in Paths :
        /\ op' = [name |-> "get_id", path |-> path]
        /\ ret' = get_id(path_to_id, path)
        /\ UNCHANGED <<fbVars, codecVars, lineVars, mapVars, hist>>

\* get_path(id), in a build with and in a build without overflow checks.
GetPath ==
    \E id \in Ids :
        \E outcome \in {get_path(files, id, b) : b \in BOOLEAN} :
            /\ op' = [name |-> "get_path", id |-> id]
            /\ ret' = outcome
            /\ UNCHANGED <<fbVars, codecVars, lineVars, mapVars, hist>>

\* get_content(id), in a build with and in a build without overflow checks.
GetContent ==
    \E id \in Ids :
        \E outcome \in {get_content(files, id, b) : b \in BOOLEAN} :
            /\ op' = [name |-> "get_content", id |-> id]
            /\ ret' = outcome
            /\ UNCHANGED <<fbVars, codecVars, lineVars, mapVars, hist>>

\* view(args.file_id, pos) for a position pos whose accessors return args' fields.
View ==
    \E outcome \in {view(files, line_offsets, args.file_id, args, b) : b \in BOOLEAN} :
        /\ op' = [name |-> "view"]
        /\ ret' = outcome
        /\ UNCHANGED <<fbVars, codecVars, lineVars, mapVars, hist>>

(***************************************************************************)
(* The registry: any sequence of add_file, finalize and lookups.           *)
(***************************************************************************)
Init ==
    /\ args = ZeroArgs
    /\ InitCodecVars
    /\ InitFbVars
    /\ InitLineVars
    /\ InitMapVars
    /\ InitCallVars

Next == AddFile \/ Finalize \/ GetId \/ GetPath \/ GetContent

Spec == Init /\ [][Next]_vars

(***************************************************************************)
(* view on a registry to which one file was added: new(), then             *)
(* add_file(path 1, c) for a content c; args is what view will be handed.  *)
(***************************************************************************)
InitView ==
    /\ args \in ViewArgs
    /\ InitCodecVars
    /\ InitFbVars
    /\ InitLineVars
    /\ \E c \in LineContents :
          /\ files = <<[path |-> 1, content |-> c]>>
          /\ hist = Called(NoHist, <<>>, 1, c)
    /\ path_to_id = EmptyMap
    /\ line_offsets = EmptyMap
    /\ op = [name |-> "add_file"]
    /\ ret = None

NextView == Finalize \/ View

SpecView == InitView /\ [][NextView]_vars

(***************************************************************************)
(* Registries sharing one feedback context.  Each registry was built by    *)
(* with_feedback(Some(feedback)) and filled by add_file; a thread of its   *)
(* own then calls finalize on it.  A step of a thread is one statement of  *)
(* finalize that touches the shared RuntimeFeedback, or a stretch of       *)
(* statements that touch the thread's own registry only.                   *)
(***************************************************************************)
FbRegs == 2      \* registries that share the feedback context

Registries == 1..FbRegs
Entry(path, c) == [path |-> path, content |-> c]
\* What add_file left in a registry before its finalize.
FbFiles ==
    { <<>>,
      <<Entry(1, <<97>>)>>,
      <<Entry(2, <<97, NEWLINE, 98>>), Entry(1, <<98>>)>>,
      <<Entry(1, <<97, NEWLINE, 98>>), Entry(1, <<97, 98>>)>> }

RECURSIVE sum_content_len(_, _)
\* self.files.iter().map(|e| e.content.len() as u64).sum() over the first n entries
sum_content_len(fs, n) ==
    IF n = 0 THEN 0 ELSE sum_content_len(fs, n - 1) + Len(fs[n].content)

RECURSIVE max_content_len(_, _)
\* self.files.iter().map(|e| e.content.len()).max().unwrap_or(0)
max_content_len(fs, n) ==
    IF n = 0 THEN 0
    ELSE LET m == max_content_len(fs, n - 1)
         IN  IF Len(fs[n].content) >= m THEN Len(fs[n].content) ELSE m

lock_without_waiting(m) == TRUE
\* Mutex::lock returns once no other thread holds the guard.
lock_acquirable(m) == m.holder = 0

\* with_feedback(Some(feedback)) followed by the add_file calls that left fs.
with_feedback(fs) ==
    [pc |-> "finalize", added |-> fs, files |-> fs, path_to_id |-> EmptyMap,
     line_offsets |-> EmptyMap, total_bytes |-> 0, max_size |-> 0,
     usage_count |-> 0, ret |-> None]

InitFeedback ==
    /\ args = ZeroArgs
    /\ InitCodecVars
    /\ InitLineVars
    /\ InitMapVars
    /\ InitCallVars
    /\ feedback = DefaultFeedback
    /\ mutex = Unlocked
    /\ \E fs \in [Registries -> FbFiles] : regs = [r \in Registries |-> with_feedback(fs[r])]

At(r, label) == regs[r].pc = label
Private == <<codecVars, lineVars, mapVars, callVars>>

\* finalize up to the lock: sort, dedup, capacity check, ids, windows, and the
\* two sums over the registry's own files.
FinalizeUntilLock ==
    \E r \in Registries :
        /\ At(r, "finalize")
        /\ \E sorted \in sort_unstable_by(regs[r].files) :
              LET deduped == dedup_by_path(sorted)
                  ids == build_ids(deduped, 0, EmptyMap)
                  windows == rewindow(deduped)
              IN  regs' = [regs EXCEPT ![r] =
                      IF Len(deduped) > MaxFiles
                      THEN [@ EXCEPT !.files = deduped, !.ret = CapacityExceeded,
                                     !.pc = "returned"]
                      ELSE IF ~ids.ok
                      THEN [@ EXCEPT !.files = deduped, !.path_to_id = ids.map,
                                     !.ret = ConversionFailed, !.pc = "returned"]
                      ELSE [@ EXCEPT !.files = windows, !.path_to_id = ids.map,
                                     !.total_bytes = sum_content_len(windows, Len(windows)),
                                     !.max_size = max_content_len(windows, Len(windows)),
                                     !.pc = "lock"]]
        /\ UNCHANGED <<Private, feedback, mutex>>

\* let mut data = feedback.lock().unwrap();
Lock ==
    \E r \in Registries :
        /\ At(r, "lock")
        /\ lock_acquirable(mutex)
        /\ mutex' = [holder |-> r, last |-> r]
        /\ regs' = [regs EXCEPT ![r].pc = "total_files"]
        /\ UNCHANGED <<Private, feedback>>

\* data.total_files = self.files.len();
StoreTotalFiles ==
    \E r \in Registries :
        /\ At(r, "total_files")
        /\ feedback' = [feedback EXCEPT !.total_files = Len(regs[r].files)]
        /\ regs' = [regs EXCEPT ![r].pc = "total_bytes"]
        /\ UNCHANGED <<Private, mutex>>

\* data.total_bytes = total_bytes;
StoreTotalBytes ==
    \E r \in Registries :
        /\ At(r, "total_bytes")
        /\ feedback' = [feedback EXCEPT !.total_bytes = regs[r].total_bytes]
        /\ regs' = [regs EXCEPT ![r].pc = "max_file_size"]
        /\ UNCHANGED <<Private, mutex>>

\* data.max_file_size = max_size;
StoreMaxFileSize ==
    \E r \in Registries :
        /\ At(r, "max_file_size")
        /\ feedback' = [feedback EXCEPT !.max_file_size = regs[r].max_size]
        /\ regs' = [regs EXCEPT ![r].pc = "load_usage_count"]
        /\ UNCHANGED <<Private, mutex>>

\* data.usage_count += 1; first the load of the old count ...
LoadUsageCount ==
    \E r \in Registries :
        /\ At(r, "load_usage_count")
        /\ regs' = [regs EXCEPT ![r].usage_count = feedback.usage_count,
                                ![r].pc = "store_usage_count"]
        /\ UNCHANGED <<Private, feedback, mutex>>

\* ... then the store of the count plus one.
StoreUsageCount ==
    \E r \in Registries :
        /\ At(r, "store_usage_count")
        /\ feedback' = [feedback EXCEPT !.usage_count = regs[r].usage_count + 1]
        /\ regs' = [regs EXCEPT ![r].pc = "unlock"]
        /\ UNCHANGED <<Private, mutex>>

\* The guard `data` is dropped at the end of the if-let block.
Unlock ==
    \E r \in Registries :
        /\ At(r, "unlock")
        /\ mutex' = [mutex EXCEPT !.holder = 0]
        /\ regs' = [regs EXCEPT ![r].pc = "line_offsets"]
        /\ UNCHANGED <<Private, feedback>>

\* The view feature's loop, and the return of finalize.
FinalizeAfterUnlock ==
    \E r \in Registries :
        /\ At(r, "line_offsets")
        /\ LET lines == build_line_offsets(regs[r].files, 0, regs[r].line_offsets)
           IN  regs' = [regs EXCEPT ![r].line_offsets = lines.map,
                                    ![r].ret = IF lines.ok THEN Ok ELSE ConversionFailed,
                                    ![r].pc = "returned"]
        /\ UNCHANGED <<Private, feedback, mutex>>

NextFeedback ==
    \/ FinalizeUntilLock
    \/ Lock
    \/ StoreTotalFiles
    \/ StoreTotalBytes
    \/ StoreMaxFileSize
    \/ LoadUsageCount
    \/ StoreUsageCount
    \/ Unlock
    \/ FinalizeAfterUnlock

SpecFeedback == InitFeedback /\ [][NextFeedback]_vars

(***************************************************************************)
(* What the claims speak of, stated without the registry's own operators.  *)
(***************************************************************************)
PathsOf(fs) == {fs[i].path : i \in 1..Len(fs)}
ContentsPushed(p) == {pc[2] : pc \in {x \in hist.pushed : x[1] = p}}
\* What get_content(get_id(p)) returns, in either build (get_id never gives 0).
ContentOf(p) ==
    LET id == get_id(path_to_id, p)
    IN  IF id.some /\ id.value >= 1 THEN get_content(files, id.value, TRUE) ELSE None
Finalized == op.name = "finalize" /\ ret = Ok
\* Every add_file call so far had a path of its own, and there were at most max_files.
DistinctWithinCapacity ==
    /\ hist.nadds = Cardinality(hist.passed)
    /\ hist.nadds <= MaxFiles

(***************************************************************************)
(* C2  ID determinism: after distinct paths, at most max_files of them,    *)
(* were added in any order, finalize gives each path p the id 1 + the      *)
(* number of added paths that sort strictly before p.                      *)
(***************************************************************************)
C2_IdDeterminism ==
    (Finalized /\ DistinctWithinCapacity) =>
        \A p \in hist.passed :
            get_id(path_to_id, p) = Some(1 + Cardinality({q \in hist.passed : q < p}))

\* Path 2 was added before path 1 (1 was passed last); 1 still gets id 1.
C2_Witness ==
    /\ Finalized /\ DistinctWithinCapacity
    /\ hist.passed = {1, 2} /\ hist.last = 1
    /\ get_id(path_to_id, 1) = Some(1) /\ get_id(path_to_id, 2) = Some(2)

(***************************************************************************)
(* C3  Deduplication.  As claimed (for two contents of different lengths): *)
(* after a path was added twice with different contents, finalize leaves   *)
(* one entry for it, holding the content of the first add_file call.       *)
(***************************************************************************)
C3_KeepsFirstAdded ==
    \A p \in Paths :
        ( /\ Finalized
          /\ hist.nadds = 2 /\ hist.passed = {p}
          /\ \E c1, c2 \in ContentsPushed(p) : Len(c1) # Len(c2) )
        => /\ Len(files) = 1
           /\ ContentOf(p) = Some(hist.first[p])

(***************************************************************************)
(* C3 as amended: after finalize every path add_file accepted has a single *)
(* entry, and get_content(get_id(path)) is one of the contents accepted    *)
(* for that path that no other of them is shorter than.                    *)
(***************************************************************************)
C3_KeepsShortest ==
    Finalized =>
        \A pc \in hist.pushed :
            /\ Cardinality({i \in 1..Len(files) : files[i].path = pc[1]}) = 1
            /\ ContentOf(pc[1]).some
            /\ ContentOf(pc[1]).value \in ContentsPushed(pc[1])
            /\ Len(ContentOf(pc[1]).value) <= Len(pc[2])

\* Path 1 added first with the long content, then with a short one: one entry,
\* holding the short content.
C3_Witness ==
    /\ Finalized
    /\ hist.nadds = 2 /\ hist.passed = {1}
    /\ hist.first[1] = <<97, NEWLINE, 98>>
    /\ ContentsPushed(1) = {<<97, NEWLINE, 98>>, <<97>>}
    /\ Len(files) = 1
    /\ ContentOf(1) = Some(<<97>>)

(***************************************************************************)
(* C4  Capacity error: once more distinct paths than max_files have been   *)
(* passed to add_file, finalize returns the capacity error.                *)
(***************************************************************************)
C4_CapacityError ==
    (op.name = "finalize" /\ Cardinality(hist.passed) > MaxFiles)
        => ret = CapacityExceeded

(***************************************************************************)
(* C5  Full capacity succeeds: after n <= max_files distinct paths were    *)
(* added, finalize returns Ok and the paths' ids are pairwise distinct and *)
(* are exactly 1..n, each a value of the ID type.                          *)
(***************************************************************************)
C5_FullCapacity ==
    (op.name = "finalize" /\ DistinctWithinCapacity) =>
        /\ ret = Ok
        /\ \A p \in hist.passed : get_id(path_to_id, p).some
        /\ {get_id(path_to_id, p).value : p \in hist.passed} = 1..hist.nadds
        /\ \A p, q \in hist.passed :
              get_id(path_to_id, p) = get_id(path_to_id, q) => p = q
        /\ \A p \in hist.passed : get_id(path_to_id, p).value \in Ids

\* Exactly max_files distinct paths, finalized.
C5_Witness ==
    /\ Finalized
    /\ DistinctWithinCapacity
    /\ hist.nadds = MaxFiles
    /\ Len(files) = MaxFiles

(***************************************************************************)
(* C6  Silent cap on add: an add_file call on a registry that holds        *)
(* max_files entries returns normally and changes neither len() nor what   *)
(* get_id, get_path and get_content return.                                *)
(***************************************************************************)
C6_SilentCap ==
    [][ (hist'.nadds = hist.nadds + 1 /\ Len(files) >= MaxFiles)
        => /\ ret' = None
           /\ Len(files') = Len(files)
           /\ \A p \in Paths : get_id(path_to_id', p) = get_id(path_to_id, p)
           /\ \A id \in Ids, b \in BOOLEAN :
                 /\ get_path(files', id, b) = get_path(files, id, b)
                 /\ get_content(files', id, b) = get_content(files, id, b) ]_vars

\* An add_file call was made at capacity: its path is not in the registry.
C6_Witness ==
    /\ op.name = "add_file"
    /\ Len(files) = MaxFiles
    /\ hist.last \notin PathsOf(files)

(***************************************************************************)
(* C7  Lookup misses are absent values: get_id of a path never passed to   *)
(* add_file, and get_path / get_content of id 0 or of an id above len(),   *)
(* return None; no lookup panics.                                          *)
(***************************************************************************)
C7_LookupMisses ==
    /\ op.name \in {"get_id", "get_path", "get_content"} => ret # Panic
    /\ (op.name = "get_id" /\ op.path \notin hist.passed) => ret = None
    /\ (op.name \in {"get_path", "get_content"} /\ (op.id = 0 \/ op.id > Len(files)))
          => ret = None

(***************************************************************************)
(* Lines and spans of a content c, counted from its newline bytes.         *)
(***************************************************************************)
NewlineIdx(c) == {i \in 1..Len(c) : c[i] = NEWLINE}
LineCount(c) == Cardinality(NewlineIdx(c)) + 1
\* The 0-based position of the n-th newline byte of c.
NthNewline(c, n) ==
    (CHOOSE i \in NewlineIdx(c) : Cardinality({j \in NewlineIdx(c) : j < i}) = n - 1) - 1
\* The 0-based position of the first byte of line k, 1 <= k <= LineCount(c).
LineStart(c, k) == IF k = 1 THEN 0 ELSE NthNewline(c, k - 1) + 1
Max(a, b) == IF a >= b THEN a ELSE b

(***************************************************************************)
(* C8  View resolution, for a finalized file c and a position, with        *)
(* start_byte = LineStart(start_line) + max(start_col - 1, 0) and          *)
(* end_byte = LineStart(end_line) + end_col.  As claimed: view returns     *)
(* nothing exactly when a line is 0, start_line > end_line, a line does    *)
(* not exist, start_byte > end_byte, or start_byte or end_byte exceeds the *)
(* content length; otherwise it returns the bytes start_byte..end_byte.    *)
(***************************************************************************)
StartByte(c) == LineStart(c, args.start_line) + Max(args.start_col - 1, 0)
EndByte(c) == LineStart(c, args.end_line) + args.end_col
BadLines(c) ==
    \/ args.start_line = 0 \/ args.end_line = 0
    \/ args.start_line > args.end_line
    \/ args.start_line > LineCount(c) \/ args.end_line > LineCount(c)
\* view was called with the id of the file added first, after finalize.
ViewedFinalized ==
    /\ op.name = "view"
    /\ 1 \in DOMAIN hist.first
    /\ get_id(path_to_id, 1) = Some(args.file_id)

C8_ViewAsClaimed ==
    ViewedFinalized =>
        LET c == hist.first[1]
        IN  IF \/ BadLines(c)
               \/ StartByte(c) > EndByte(c)
               \/ StartByte(c) > Len(c) \/ EndByte(c) > Len(c)
            THEN ret = None
            ELSE ret = Some(SubSeq(c, StartByte(c) + 1, EndByte(c)))

(***************************************************************************)
(* C8 as amended: view also returns nothing when start_byte equals the     *)
(* content length (it returns nothing exactly when a line is 0,            *)
(* start_line > end_line, a line does not exist, start_byte > end_byte,    *)
(* start_byte >= content length or end_byte > content length).             *)
(***************************************************************************)
C8_ViewResolution ==
    ViewedFinalized =>
        LET c == hist.first[1]
        IN  IF \/ BadLines(c)
               \/ StartByte(c) > EndByte(c)
               \/ StartByte(c) >= Len(c) \/ EndByte(c) > Len(c)
            THEN ret = None
            ELSE ret = Some(SubSeq(c, StartByte(c) + 1, EndByte(c)))

\* A span over two lines that is the whole content, as in test_multi_line_view.
C8_Witness ==
    /\ ViewedFinalized
    /\ hist.first[1] = <<97, 97, NEWLINE, 97>>
    /\ args.start_line = 1 /\ args.start_col = 1
    /\ args.end_line = 2 /\ args.end_col = 1
    /\ ret = Some(<<97, 97, NEWLINE, 97>>)

(***************************************************************************)
(* C9  Line range: the index of a content has (newline bytes + 1) lines;   *)
(* line_range(k), 1 <= k <= line count, is (start, end) with start = 0 for *)
(* k = 1 and else the byte after the (k-1)-th newline, end = the position  *)
(* of the k-th newline for a non-last line and the content length for the  *)
(* last, and start <= end; line_range(0) and line_range(k) above the line  *)
(* count are not found.                                                    *)
(***************************************************************************)
C9_LineRange ==
    /\ clo.built => Len(clo.offsets) = LineCount(content)
    /\ op.name = "get_line_range" =>
          IF op.line = 0 \/ op.line > LineCount(content)
          THEN ret = None
          ELSE /\ ret = Some(<<LineStart(content, op.line),
                               IF op.line < LineCount(content)
                               THEN NthNewline(content, op.line)
                               ELSE Len(content)>>)
               /\ ret.value[1] <= ret.value[2]

\* "a\na\n": line 2 is bytes 2..3, the newline at 3 left out.
C9_Witness ==
    /\ content = <<97, NEWLINE, 97, NEWLINE>>
    /\ op.name = "get_line_range" /\ op.line = 2
    /\ ret = Some(<<2, 3>>)

(***************************************************************************)
(* The statistics one finalize of registry r reports, from the entries     *)
(* that were added to it: one file per path, of the least length added     *)
(* for the path.                                                           *)
(***************************************************************************)
AddedPaths(r) == PathsOf(regs[r].added)
LeastLen(r, p) ==
    CHOOSE n \in 0..MaxLen :
        /\ \E i \in 1..Len(regs[r].added) :
              regs[r].added[i].path = p /\ Len(regs[r].added[i].content) = n
        /\ \A i \in 1..Len(regs[r].added) :
              regs[r].added[i].path = p => Len(regs[r].added[i].content) >= n
RECURSIVE SumOver(_, _)
SumOver(r, ps) ==
    IF ps = {} THEN 0
    ELSE LET p == CHOOSE q \in ps : TRUE IN LeastLen(r, p) + SumOver(r, ps \ {p})
StatsOf(r) ==
    [total_files |-> Cardinality(AddedPaths(r)),
     total_bytes |-> SumOver(r, AddedPaths(r)),
     max_file_size |-> IF AddedPaths(r) = {} THEN 0
                       ELSE CHOOSE n \in 0..MaxLen :
                              /\ \E p \in AddedPaths(r) : LeastLen(r, p) = n
                              /\ \A p \in AddedPaths(r) : LeastLen(r, p) <= n]
Statistics(f) ==
    [total_files |-> f.total_files, total_bytes |-> f.total_bytes,
     max_file_size |-> f.max_file_size]
AllReturned == \A r \in Registries : regs[r].pc = "returned" /\ regs[r].ret = Ok
Updated == {r \in Registries : regs[r].pc \in {"line_offsets", "returned"}}

(***************************************************************************)
(* C11  Shared feedback is updated atomically, last writer wins: once the  *)
(* finalize calls of all registries sharing the feedback have returned,    *)
(* in whatever interleaving their threads ran, usage_count is the number   *)
(* of finalize calls, and total_files, total_bytes and max_file_size are   *)
(* together those of the one finalize that locked the feedback last.  The  *)
(* same holds whenever no thread is inside its update.                     *)
(***************************************************************************)
C11_AtomicFeedback ==
    /\ AllReturned =>
          /\ feedback.usage_count = FbRegs
          /\ Statistics(feedback) = StatsOf(mutex.last)
    /\ (mutex.holder = 0 /\ mutex.last # 0) =>
          /\ feedback.usage_count = Cardinality(Updated)
          /\ Statistics(feedback) = StatsOf(mutex.last)

\* Registry 1 updated the feedback after registry 2 had; the two report
\* different statistics, and those of registry 1 are the ones left.
C11_Witness ==
    /\ AllReturned
    /\ mutex.last = 1
    /\ StatsOf(1) # StatsOf(2)
    /\ StatsOf(1).total_files = 2
    /\ Statistics(feedback) = StatsOf(1)
    /\ feedback.usage_count = FbRegs

\* get_content(get_id(p)) on a registry whose fields are ids and fs.
ContentIn(ids, fs, p) ==
    LET id == get_id(ids, p)
    IN  IF id.some /\ id.value >= 1 THEN get_content(fs, id.value, TRUE) ELSE None

(***************************************************************************)
(* C12  Entries are immutable once finalized.  As claimed: a path that has *)
(* an id (so a finalize has returned) keeps the bytes that                 *)
(* get_content(get_id(p)) returns over every later add_file and finalize   *)
(* call.  A change to another content of the same length, which rests on   *)
(* the order the sort leaves equal entries in, is not counted here.        *)
(***************************************************************************)
C12_EntriesImmutable ==
    [][ \A p \in Paths :
          LET before == ContentIn(path_to_id, files, p)
              after == ContentIn(path_to_id', files', p)
          IN  before.some =>
                 /\ after.some
                 /\ \/ after.value = before.value
                    \/ Len(after.value) = Len(before.value) ]_vars

(***************************************************************************)
(* C13  Capacity is counted on deduplicated paths.  As claimed: after any  *)
(* add_file calls, duplicates among them or not, that passed at most       *)
(* max_files distinct paths, finalize leaves every path passed with an id  *)
(* and len() equal to the number of distinct paths.                        *)
(***************************************************************************)
C13_DedupCapacity ==
    (Finalized /\ Cardinality(hist.passed) <= MaxFiles) =>
        /\ \A p \in hist.passed : get_id(path_to_id, p).some
        /\ Len(files) = Cardinality(hist.passed)

\* The contents add_file accepted for path p have pairwise different lengths.
DifferentLengths(p) ==
    \A c1, c2 \in ContentsPushed(p) : c1 # c2 => Len(c1) # Len(c2)
Shortest(p) ==
    CHOOSE c \in ContentsPushed(p) : \A d \in ContentsPushed(p) : Len(c) <= Len(d)

(***************************************************************************)
(* C14  Sorted-order dedup and content-preserving consolidation: after     *)
(* finalize the entries are in strictly ascending path order; for a path   *)
(* whose accepted contents have pairwise different lengths,                *)
(* get_content(get_id(path)) is byte for byte the shortest of them; and    *)
(* the bytes of every entry are bytes that were passed to add_file for     *)
(* that entry's own path.                                                  *)
(***************************************************************************)
C14_ShortestOwnBytes ==
    Finalized =>
        /\ \A i \in 1..(Len(files) - 1) : files[i].path < files[i + 1].path
        /\ \A p \in {pc[1] : pc \in hist.pushed} :
              DifferentLengths(p) => ContentOf(p) = Some(Shortest(p))
        /\ \A i \in 1..Len(files) : files[i].content \in ContentsPushed(files[i].path)

\* Path 1 was added with a long and a short content, path 2 with another
\* content; the entry of path 2 sits behind that of path 1 in the buffer.
C14_Witness ==
    /\ Finalized
    /\ ContentsPushed(1) = {<<97, NEWLINE, 98>>, <<98>>}
    /\ ContentsPushed(2) = {<<97>>}
    /\ Len(files) = 2
    /\ ContentOf(1) = Some(<<98>>)
    /\ ContentOf(2) = Some(<<97>>)

(***************************************************************************)
(* C15  Path/ID consistency: in every state, before the first finalize,    *)
(* between finalizes and after add_file calls that follow a finalize,      *)
(* an id that get_id(p) returns is not 0, lies in 1..len(), and            *)
(* get_path(id) returns p; no two paths have the same id.                  *)
(***************************************************************************)
C15_PathIdConsistency ==
    /\ \A p \in Paths :
          LET id == get_id(path_to_id, p)
          IN  id.some =>
                 /\ id.value # 0
                 /\ id.value \in 1..Len(files)
                 /\ \A b \in BOOLEAN : get_path(files, id.value, b) = Some(p)
    /\ \A p, q \in DOMAIN path_to_id : path_to_id[p] = path_to_id[q] => p = q

\* After a finalize gave path 2 the id 1, path 1 was added: it has an entry
\* but no id yet, and id 1 still leads to path 2.
C15_Witness ==
    /\ op.name = "add_file"
    /\ get_id(path_to_id, 2) = Some(1)
    /\ get_id(path_to_id, 1) = None
    /\ Len(files) = 2 /\ files[2].path = 1
    /\ get_path(files, 1, TRUE) = Some(2)

\* The line index of content c: the start of each of its lines, and its length.
LineIndexOf(c) ==
    [built |-> TRUE,
     offsets |-> [k \in 1..LineCount(c) |-> LineStart(c, k)],
     content_length |-> Len(c)]

(***************************************************************************)
(* C16  Line indices are never stale: in every state a line index stored   *)
(* for an id is the line index of the content get_content(id) returns in   *)
(* that state, and after each finalize every id in 1..len() has one.       *)
(***************************************************************************)
C16_LineIndexFresh ==
    /\ \A id \in DOMAIN line_offsets :
          LET c == get_content(files, id, TRUE)
          IN  /\ c.some
              /\ line_offsets[id] = LineIndexOf(c.value)
    /\ Finalized => \A id \in 1..Len(files) : id \in DOMAIN line_offsets

\* A second finalize shifted path 2 from id 1 to id 2: path 2 had been added
\* twice and finalized when path 1 was added, with a content of two lines.
C16_Witness ==
    /\ Finalized
    /\ Cardinality(hist.pushed) = MaxFiles + 1
    /\ hist.last = 1
    /\ ContentsPushed(1) = {<<97, NEWLINE, 98>>}
    /\ get_id(path_to_id, 2) = Some(2)
    /\ line_offsets[1].offsets = <<0, 2>>
    /\ line_offsets[2].offsets = <<0>>

====
